---- MODULE Spec2Model ----
(***************************************************************************)
(* Clarke & Wright savings heuristic of src/Models/M1_VRP_W&C.py           *)
(* (class ClarkeWrightReverseIRP).                                         *)
(*                                                                         *)
(* Python lists are modelled as TLA+ sequences.  Node numbers and route    *)
(* slot numbers keep their Python (0-based) values; At(s, k) reads the     *)
(* Python element s[k].  Quantities and costs are floats: whole numbers    *)
(* held in a binary format of Mantissa significant bits, in which every    *)
(* addition and subtraction rounds its result to the nearest number the    *)
(* format holds.                                                           *)
(***************************************************************************)
EXTENDS Integers, Sequences, FiniteSets, TLC

VARIABLES
    n,                  \* self.n      number of nodes (depot + customers)
    d,                  \* self.d      distance matrix, d[a][b]
    returns,            \* self.returns   customer -> quantity to collect
    Q,                  \* self.Q      vehicle capacity
    depot,              \* self.depot
    routes,             \* self.routes
    route_loads,        \* self.route_loads
    route_of_customer,  \* self.route_of_customer
    savings_list,       \* local of solve()
    k,                  \* position of solve()'s for loop in savings_list (1-based)
    cm,                 \* value returned by the can_merge call of the current iteration
    pc,                 \* position of solve()
    result,             \* total_cost of the returned ClarkeWrightResult
    examined,           \* history: the savings entries the loop has examined, in order
    merges,             \* history: number of merge() calls made by solve()
    merged,             \* history: the locals of the latest merge() call
    returned            \* history: the results of the solve() calls that have returned

inputs == <<n, d, returns, Q, depot>>
object == <<routes, route_loads, route_of_customer>>
vars == <<n, d, returns, Q, depot, routes, route_loads, route_of_customer,
          savings_list, k, cm, pc, result, examined, merges, merged, returned>>

-----------------------------------------------------------------------------
(* Bounds of the explored inputs *)

\* largest number of nodes (depot included) of an offered matrix
MaxN == 5
\* largest offered vehicle capacity
MaxCap == 3
\* the quantities a keyed node may have to give
Quantities == {1, 2}
\* largest number of solve() calls made on one solver object
MaxCalls == 2
\* significant bits of a float (53 in the Python float, scaled down so that
\* rounding sets in above 1023 instead of above 2^53 - 1)
Mantissa == 10

-----------------------------------------------------------------------------
(* Python list idioms *)

At(s, idx) == s[idx + 1]                       \* s[idx]
Neg2(s) == s[Len(s) - 1]                       \* s[-2]
ButLast(s) == SubSeq(s, 1, Len(s) - 1)         \* s[:-1]
From1(s) == SubSeq(s, 2, Len(s))               \* s[1:]
Reversed(s) == [p \in 1..Len(s) |-> s[Len(s) + 1 - p]]   \* s[::-1]

RECURSIVE SumSeq(_)
SumSeq(s) == IF s = <<>> THEN 0 ELSE s[1] + SumSeq(Tail(s))

-----------------------------------------------------------------------------
(* Float arithmetic: x + y and x - y give the float nearest to the exact    *)
(* result, the one with the even last bit when two are equally near         *)

RECURSIVE Pow2(_)
Pow2(e) == IF e = 0 THEN 1 ELSE 2 * Pow2(e - 1)

\* the magnitude from which on the floats are more than 1 apart
FloatLimit == Pow2(Mantissa)

\* the spacing of the floats around the magnitude a
RECURSIVE Ulp(_)
Ulp(a) == IF a < FloatLimit THEN 1 ELSE 2 * Ulp(a \div 2)

\* the multiple of u nearest to the magnitude a, ties to the even multiple
RoundTo(a, u) ==
    LET q == a \div u
        r == a % u
    IN  IF 2 * r < u THEN q * u
        ELSE IF 2 * r > u THEN (q + 1) * u
        ELSE IF q % 2 = 0 THEN q * u
        ELSE (q + 1) * u

\* the float that stands for the exact result x
fl(x) ==
    IF x < FloatLimit /\ 0 - x < FloatLimit THEN x
    ELSE IF x >= 0 THEN RoundTo(x, Ulp(x))
    ELSE 0 - RoundTo(0 - x, Ulp(0 - x))

-----------------------------------------------------------------------------
(* Distance matrices offered to the solver.  Example is the matrix of the  *)
(* module's own usage example, continued by one node; Skewed is an         *)
(* asymmetric matrix that does not satisfy the triangle inequality;        *)
(* Clustered holds the street distances between node 0 at (0,0), nodes 1   *)
(* and 2 at (-3,1) and (-2,2), nodes 3 and 4 at (3,1) and (2,2), and node  *)
(* 5 at (0,-3); Coarse is a symmetric matrix of distances that are floats  *)
(* themselves but whose sums need more bits than a float has.              *)

Example ==
    << <<0, 10, 20, 30, 40, 50>>,
       <<10, 0, 15, 25, 35, 45>>,
       <<20, 15, 0, 18, 28, 38>>,
       <<30, 25, 18, 0, 14, 24>>,
       <<40, 35, 28, 14, 0, 12>>,
       <<50, 45, 38, 24, 12, 0>> >>

Skewed ==
    << <<0, 1, 1, 2, 1, 2>>,
       <<1, 0, 9, 1, 3, 1>>,
       <<2, 9, 0, 1, 1, 4>>,
       <<1, 2, 1, 0, 5, 1>>,
       <<3, 1, 2, 1, 0, 2>>,
       <<1, 2, 1, 3, 1, 0>> >>

Clustered ==
    << <<0, 4, 4, 4, 4, 3>>,
       <<4, 0, 2, 6, 6, 7>>,
       <<4, 2, 0, 6, 4, 7>>,
       <<4, 6, 6, 0, 2, 7>>,
       <<4, 6, 4, 2, 0, 7>>,
       <<3, 7, 7, 7, 7, 0>> >>

Coarse ==
    << <<0, 601, 701, 503, 411, 307>>,
       <<601, 0, 301, 207, 509, 613>>,
       <<701, 301, 0, 405, 311, 203>>,
       <<503, 207, 405, 0, 109, 515>>,
       <<411, 509, 311, 109, 0, 217>>,
       <<307, 613, 203, 515, 217, 0>> >>

Matrices == {Example, Skewed, Clustered}

\* the leading nn x nn block of a matrix, indexed like the Python list of lists
Block(m, nn) == [a \in 0..(nn - 1) |-> [b \in 0..(nn - 1) |-> m[a + 1][b + 1]]]

-----------------------------------------------------------------------------
(* Helpers de base *)

\* customers = [i for i in range(self.n) if i != self.depot], as a set
CustomerSet(nn, dep) == {i \in 0..(nn - 1) : i # dep}

\* the same list, in increasing order
RECURSIVE CustomersFrom(_, _, _)
CustomersFrom(i, nn, dep) ==
    IF i >= nn THEN <<>>
    ELSE (IF i # dep THEN <<i>> ELSE <<>>) \o CustomersFrom(i + 1, nn, dep)

customers == CustomersFrom(0, n, depot)

\* for i in range(len(route) - 1): cost += self.d[route[i]][route[i + 1]],
\* from the value cost on, over the edges of route
RECURSIVE cost_loop(_, _)
cost_loop(cost, route) ==
    IF Len(route) < 2 THEN cost
    ELSE cost_loop(fl(cost + d[route[1]][route[2]]), Tail(route))

\* faulty variant of route_cost: the loop stops one edge early
route_cost_short(route) == cost_loop(0, ButLast(route))

route_cost(route) == cost_loop(0, route)

\* sum(...): the items are added one by one, from the left, to the value acc
RECURSIVE sum_loop(_, _)
sum_loop(acc, items) ==
    IF items = <<>> THEN acc ELSE sum_loop(fl(acc + items[1]), Tail(items))

total_cost(rs) == sum_loop(0, [r \in 1..Len(rs) |-> route_cost(rs[r])])


\* load = self.returns.get(i, 0.0)
returns_get(i) == IF i \in DOMAIN returns THEN returns[i] ELSE 0

\* self.d[a][b] can be read: no IndexError
Readable(a, b) == a \in DOMAIN d /\ b \in DOMAIN d[a]

\* route_cost(route) reads only entries the matrix has
CostReadable(route) == \A p \in 1..(Len(route) - 1) : Readable(route[p], route[p + 1])

-----------------------------------------------------------------------------
(* compute_savings *)

\* faulty variant of s_ij: the matrix is read at [j][i]
s_ij_swapped(i, j) == fl(fl(d[depot][i] + d[depot][j]) - d[j][i])

\* s_ij = c_0i + c_0j - c_ij
s_ij(i, j) == fl(fl(d[depot][i] + d[depot][j]) - d[i][j])

\* the two nested for loops: the entries in the order they are appended,
\* from position (a, b) of customers x customers on
RECURSIVE AppendLoop(_, _, _)
AppendLoop(cs, a, b) ==
    IF a > Len(cs) THEN <<>>
    ELSE IF b > Len(cs) THEN AppendLoop(cs, a + 1, 1)
    ELSE (IF cs[b] <= cs[a] THEN <<>>
          ELSE << <<s_ij(cs[a], cs[b]), cs[a], cs[b]>> >>)
         \o AppendLoop(cs, a, b + 1)

\* faulty variant of InsertDesc: an ascending sort read backwards, which puts
\* an entry in front of the entries of equal key
InsertDesc_unstable(sorted, x) ==
    LET p == Cardinality({q \in 1..Len(sorted) : sorted[q][1] > x[1]})
    IN  SubSeq(sorted, 1, p) \o <<x>> \o SubSeq(sorted, p + 1, Len(sorted))

\* list.sort(reverse=True, key=lambda x: x[0]) is a stable sort: an entry goes
\* behind every entry already placed whose key is greater than or equal to its own
InsertDesc(sorted, x) ==
    LET p == Cardinality({q \in 1..Len(sorted) : sorted[q][1] >= x[1]})
    IN  SubSeq(sorted, 1, p) \o <<x>> \o SubSeq(sorted, p + 1, Len(sorted))

RECURSIVE sort_reverse(_)
sort_reverse(s) ==
    IF s = <<>> THEN <<>>
    ELSE InsertDesc(sort_reverse(ButLast(s)), s[Len(s)])

compute_savings == sort_reverse(AppendLoop(customers, 1, 1))

\* every entry of the matrix that the two loops read is there
SavingsReadable ==
    \A i, j \in CustomerSet(n, depot) :
        i < j => Readable(depot, i) /\ Readable(depot, j) /\ Readable(i, j)

-----------------------------------------------------------------------------
(* init_routes: the three attributes after the call *)

\* faulty variant of init_routes: the demand is looked up by the position idx
\* of the customer instead of by the customer
init_routes_by_idx ==
    [routes |-> [idx \in 1..Len(customers) |-> <<depot, customers[idx], depot>>],
     route_loads |-> [idx \in 1..Len(customers) |-> returns_get(idx - 1)],
     route_of_customer |->
        [c \in {customers[idx] : idx \in 1..Len(customers)} |->
            (CHOOSE idx \in 1..Len(customers) : customers[idx] = c) - 1]]

\* faulty variant of init_routes: the three attributes are not emptied, the
\* routes of the customers are appended behind what the object holds
init_routes_keep ==
    [routes |-> routes \o
        [idx \in 1..Len(customers) |-> <<depot, customers[idx], depot>>],
     route_loads |-> route_loads \o
        [idx \in 1..Len(customers) |-> returns_get(customers[idx])],
     route_of_customer |->
        [c \in {customers[idx] : idx \in 1..Len(customers)} |->
            Len(routes) + (CHOOSE idx \in 1..Len(customers) : customers[idx] = c) - 1]]

init_routes ==
    [routes |-> [idx \in 1..Len(customers) |-> <<depot, customers[idx], depot>>],
     route_loads |-> [idx \in 1..Len(customers) |-> returns_get(customers[idx])],
     route_of_customer |->
        [c \in {customers[idx] : idx \in 1..Len(customers)} |->
            (CHOOSE idx \in 1..Len(customers) : customers[idx] = c) - 1]]

-----------------------------------------------------------------------------
(* Conditions de fusion de tournees *)

\* the solver object as the methods see it
Self == [routes |-> routes, route_loads |-> route_loads,
         route_of_customer |-> route_of_customer]

\* faulty variant of new_load: the load of route rj is left out
new_load_first(self, ri, rj) == At(self.route_loads, ri)

\* new_load = self.route_loads[ri] + self.route_loads[rj]
new_load(self, ri, rj) == fl(At(self.route_loads, ri) + At(self.route_loads, rj))

\* faulty variant of can_merge: a load equal to the capacity is refused
can_merge_strict(self, i, j) ==
    LET ri == self.route_of_customer[i]
        rj == self.route_of_customer[j]
        route_i == At(self.routes, ri)
        route_j == At(self.routes, rj)
        i_is_start == (At(route_i, 1) = i)
        i_is_end == (Neg2(route_i) = i)
        j_is_start == (At(route_j, 1) = j)
        j_is_end == (Neg2(route_j) = j)
        ret == IF ri = rj THEN FALSE
               ELSE IF ~(i_is_start \/ i_is_end) THEN FALSE
               ELSE IF ~(j_is_start \/ j_is_end) THEN FALSE
               ELSE IF new_load(self, ri, rj) >= Q THEN FALSE
               ELSE TRUE
    IN  [ret |-> ret, self |-> self]

\* faulty variant of can_merge: the capacity test adds the load of route rj
\* into self.route_loads[ri] instead of into a local
can_merge_accumulate(self, i, j) ==
    LET ri == self.route_of_customer[i]
        rj == self.route_of_customer[j]
        route_i == At(self.routes, ri)
        route_j == At(self.routes, rj)
        i_is_start == (At(route_i, 1) = i)
        i_is_end == (Neg2(route_i) = i)
        j_is_start == (At(route_j, 1) = j)
        j_is_end == (Neg2(route_j) = j)
        tested == ri # rj /\ (i_is_start \/ i_is_end) /\ (j_is_start \/ j_is_end)
    IN  [ret |-> tested /\ new_load(self, ri, rj) <= Q,
         self |-> IF tested
                  THEN [self EXCEPT !.route_loads[ri + 1] = new_load(self, ri, rj)]
                  ELSE self]

\* can_merge(i, j): the value returned and the object after the call
can_merge(self, i, j) ==
    LET ri == self.route_of_customer[i]
        rj == self.route_of_customer[j]
        route_i == At(self.routes, ri)
        route_j == At(self.routes, rj)
        i_is_start == (At(route_i, 1) = i)
        i_is_end == (Neg2(route_i) = i)
        j_is_start == (At(route_j, 1) = j)
        j_is_end == (Neg2(route_j) = j)
        ret == IF ri = rj THEN FALSE
               ELSE IF ~(i_is_start \/ i_is_end) THEN FALSE
               ELSE IF ~(j_is_start \/ j_is_end) THEN FALSE
               ELSE IF new_load(self, ri, rj) > Q THEN FALSE
               ELSE TRUE
    IN  [ret |-> ret, self |-> self]

-----------------------------------------------------------------------------
(* merge *)

\* faulty variant of join_end_start: the closing depot of route_i is kept
join_end_start_keep(route_i, route_j) == route_i \o From1(route_j)

\* ... i - 0   et   0 - j ...
join_end_start(route_i, route_j) == ButLast(route_i) \o From1(route_j)
\* faulty variant of join_start_end: the routes are joined as in the first case
join_start_end_direct(route_i, route_j) == ButLast(route_i) \o From1(route_j)

\* 0 - i ...   et   ... j - 0
join_start_end(route_i, route_j) == ButLast(route_j) \o From1(route_i)
\* faulty variant of join_start_start: route_i is not reversed
join_start_start_plain(route_i, route_j) == ButLast(route_i) \o From1(route_j)

\* 0 - i ...   et   0 - j ...
join_start_start(route_i, route_j) == ButLast(Reversed(route_i)) \o From1(route_j)
\* faulty variant of join_end_end: route_j is not reversed
join_end_end_plain(route_i, route_j) == ButLast(route_i) \o From1(route_j)

\* ... i - 0   et   ... j - 0
join_end_end(route_i, route_j) == ButLast(route_i) \o From1(Reversed(route_j))

\* faulty variant of splice_case: the chain has no branch for i and j both last
splice_case_three(route_i, route_j, i, j) ==
    LET i_is_start == (At(route_i, 1) = i)
        i_is_end == (Neg2(route_i) = i)
        j_is_start == (At(route_j, 1) = j)
        j_is_end == (Neg2(route_j) = j)
    IN  IF i_is_end /\ j_is_start THEN 1
        ELSE IF i_is_start /\ j_is_end THEN 2
        ELSE IF i_is_start /\ j_is_start THEN 3
        ELSE 0

\* which branch of the if / elif chain merge(i, j) takes; 0 is the final else
splice_case(route_i, route_j, i, j) ==
    LET i_is_start == (At(route_i, 1) = i)
        i_is_end == (Neg2(route_i) = i)
        j_is_start == (At(route_j, 1) = j)
        j_is_end == (Neg2(route_j) = j)
    IN  IF i_is_end /\ j_is_start THEN 1
        ELSE IF i_is_start /\ j_is_end THEN 2
        ELSE IF i_is_start /\ j_is_start THEN 3
        ELSE IF i_is_end /\ j_is_end THEN 4
        ELSE 0

\* new_route of the branch taken
splice(route_i, route_j, i, j) ==
    LET c == splice_case(route_i, route_j, i, j)
    IN  IF c = 1 THEN join_end_start(route_i, route_j)
        ELSE IF c = 2 THEN join_start_end(route_i, route_j)
        ELSE IF c = 3 THEN join_start_start(route_i, route_j)
        ELSE join_end_end(route_i, route_j)

\* self.route_of_customer[node] = slot, for every node of route except the depot
remap(roc, route, slot) ==
    LET moved == {route[p] : p \in 1..Len(route)} \ {depot}
    IN  [c \in (DOMAIN roc) \cup moved |-> IF c \in moved THEN slot ELSE roc[c]]

\* faulty variant of remove_slot: slot rj is deleted from the lists, so that
\* every route behind it moves down by one slot
remove_slot_shift(self, rj) ==
    [routes |-> [p \in 1..(Len(self.routes) - 1) |->
                    IF p <= rj THEN self.routes[p] ELSE self.routes[p + 1]],
     route_loads |-> [p \in 1..(Len(self.route_loads) - 1) |->
                    IF p <= rj THEN self.route_loads[p] ELSE self.route_loads[p + 1]],
     route_of_customer |->
        [c \in DOMAIN self.route_of_customer |->
            IF self.route_of_customer[c] > rj
            THEN self.route_of_customer[c] - 1
            ELSE self.route_of_customer[c]]]

\* faulty variant of remove_slot: the lists are popped without moving the
\* last route into slot rj
remove_slot_pop(self, rj) ==
    [routes |-> ButLast(self.routes),
     route_loads |-> ButLast(self.route_loads),
     route_of_customer |-> self.route_of_customer]

\* faulty variant of remove_slot: the last route is moved into slot rj but its
\* customers keep pointing at the slot it came from
remove_slot_stale(self, rj) ==
    LET last_idx == Len(self.routes) - 1
        moved == IF rj # last_idx
                 THEN [routes |-> [self.routes EXCEPT ![rj + 1] = At(self.routes, last_idx)],
                       route_loads |-> [self.route_loads EXCEPT
                                           ![rj + 1] = At(self.route_loads, last_idx)],
                       route_of_customer |-> self.route_of_customer]
                 ELSE self
    IN  [routes |-> ButLast(moved.routes),
         route_loads |-> ButLast(moved.route_loads),
         route_of_customer |-> moved.route_of_customer]

\* suppression de rj: the last route takes its slot, then both lists are popped
remove_slot(self, rj) ==
    LET last_idx == Len(self.routes) - 1
        moved == IF rj # last_idx
                 THEN [routes |-> [self.routes EXCEPT ![rj + 1] = At(self.routes, last_idx)],
                       route_loads |-> [self.route_loads EXCEPT
                                           ![rj + 1] = At(self.route_loads, last_idx)],
                       route_of_customer |->
                           remap(self.route_of_customer, At(self.routes, last_idx), rj)]
                 ELSE self
    IN  [routes |-> ButLast(moved.routes),
         route_loads |-> ButLast(moved.route_loads),
         route_of_customer |-> moved.route_of_customer]

\* the locals of a call merge(i, j); taken is the branch of the if / elif chain
merge_locals(self, i, j) ==
    LET ri == self.route_of_customer[i]
        rj == self.route_of_customer[j]
    IN  [i |-> i, j |-> j, ri |-> ri, rj |-> rj,
         route_i |-> At(self.routes, ri),
         route_j |-> At(self.routes, rj),
         taken |-> splice_case(At(self.routes, ri), At(self.routes, rj), i, j),
         last_idx |-> Len(self.routes) - 1]

\* no merge() call yet
NoMerge == [taken |-> -1]

\* merge(i, j): the object after the call
merge(self, i, j) ==
    LET ri == self.route_of_customer[i]
        rj == self.route_of_customer[j]
        route_i == At(self.routes, ri)
        route_j == At(self.routes, rj)
    IN  IF splice_case(route_i, route_j, i, j) = 0 THEN self
        ELSE LET new_route == splice(route_i, route_j, i, j)
                 replaced ==
                    [routes |-> [self.routes EXCEPT ![ri + 1] = new_route],
                     route_loads |-> [self.route_loads EXCEPT
                                         ![ri + 1] = new_load(self, ri, rj)],
                     route_of_customer |->
                         remap(self.route_of_customer, new_route, ri)]
             IN  remove_slot(replaced, rj)

-----------------------------------------------------------------------------
(* Solveur principal: solve(), one action per step *)

\* the demand mappings offered to the solver: any part of the customers keyed
\* with one quantity, every customer keyed with any quantities, or every node
\* keyed (the depot included) with one quantity
DemandMaps(nn, dep) ==
    {[c \in K |-> q] : K \in SUBSET CustomerSet(nn, dep), q \in Quantities}
    \cup [CustomerSet(nn, dep) -> Quantities]
    \cup {[x \in 0..(nn - 1) |-> q] : q \in Quantities}

\* the depots offered with nn nodes: the first node, a node in the middle,
\* the last node
Depots(nn) == {0, nn \div 2, nn - 1}

\* the object as __init__ leaves it, for every offered input
Init ==
    /\ n \in 1..MaxN
    /\ depot \in Depots(n)
    /\ d \in {Block(m, n) : m \in Matrices}
    /\ returns \in DemandMaps(n, depot)
    /\ Q \in 1..MaxCap
    /\ routes = <<>>
    /\ route_loads = <<>>
    /\ route_of_customer = <<>>
    /\ savings_list = <<>>
    /\ k = 0
    /\ cm = FALSE
    /\ pc = "start"
    /\ result = 0
    /\ examined = <<>>
    /\ merges = 0
    /\ merged = NoMerge
    /\ returned = <<>>

\* self.init_routes()
InitRoutes ==
    /\ pc = "start"
    /\ routes' = init_routes.routes
    /\ route_loads' = init_routes.route_loads
    /\ route_of_customer' = init_routes.route_of_customer
    /\ pc' = "savings"
    /\ UNCHANGED <<inputs, savings_list, k, cm, result, examined, merges, merged, returned>>

\* savings_list = self.compute_savings(); the for loop starts
ComputeSavings ==
    /\ pc = "savings"
    /\ SavingsReadable
    /\ savings_list' = compute_savings
    /\ k' = 1
    /\ pc' = "loop"
    /\ UNCHANGED <<inputs, object, cm, result, examined, merges, merged, returned>>

\* for s, i, j in savings_list: if self.can_merge(i, j)
CanMergeCall ==
    /\ pc = "loop"
    /\ k <= Len(savings_list)
    /\ LET e == savings_list[k]
           r == can_merge(Self, e[2], e[3])
       IN  /\ cm' = r.ret
           /\ routes' = r.self.routes
           /\ route_loads' = r.self.route_loads
           /\ route_of_customer' = r.self.route_of_customer
           /\ examined' = Append(examined, e)
    /\ pc' = "test"
    /\ UNCHANGED <<inputs, savings_list, k, result, merges, merged, returned>>

\* faulty variant of MergeCall: merge is called whatever can_merge returned
MergeCall_unguarded ==
    /\ pc = "test"
    /\ LET e == savings_list[k]
           after == merge(Self, e[2], e[3])
       IN  /\ routes' = after.routes
           /\ route_loads' = after.route_loads
           /\ route_of_customer' = after.route_of_customer
           /\ merged' = merge_locals(Self, e[2], e[3])
    /\ merges' = merges + 1
    /\ k' = k + 1
    /\ pc' = "loop"
    /\ UNCHANGED <<inputs, savings_list, cm, result, examined, returned>>

\* can_merge returned True: self.merge(i, j), then the next entry
MergeCall ==
    /\ pc = "test"
    /\ cm
    /\ LET e == savings_list[k]
           after == merge(Self, e[2], e[3])
       IN  /\ routes' = after.routes
           /\ route_loads' = after.route_loads
           /\ route_of_customer' = after.route_of_customer
           /\ merged' = merge_locals(Self, e[2], e[3])
    /\ merges' = merges + 1
    /\ k' = k + 1
    /\ pc' = "loop"
    /\ UNCHANGED <<inputs, savings_list, cm, result, examined, returned>>

\* can_merge returned False: the next entry
SkipMerge ==
    /\ pc = "test"
    /\ ~cm
    /\ k' = k + 1
    /\ pc' = "loop"
    /\ UNCHANGED <<inputs, object, savings_list, cm, result, examined, merges, merged, returned>>

\* the list is exhausted: return ClarkeWrightResult(routes, total_cost(routes))
Return ==
    /\ pc = "loop"
    /\ k > Len(savings_list)
    /\ \A r \in 1..Len(routes) : CostReadable(routes[r])
    /\ result' = total_cost(routes)
    /\ returned' = Append(returned, [routes |-> routes, total_cost |-> total_cost(routes)])
    /\ pc' = "done"
    /\ UNCHANGED <<inputs, object, savings_list, k, cm, examined, merges, merged>>

Next ==
    \/ InitRoutes
    \/ ComputeSavings
    \/ CanMergeCall
    \/ MergeCall
    \/ SkipMerge
    \/ Return

Spec == Init /\ [][Next]_vars

-----------------------------------------------------------------------------
(* solve() on inputs that nothing has validated: __init__ stores whatever it  *)
(* is given, and a read outside the matrix raises IndexError                  *)

\* the leading block of m with one row cut short by an entry
Ragged(m, nn, short) ==
    [a \in 0..(nn - 1) |->
        [b \in 0..((IF a = short THEN nn - 1 ELSE nn) - 1) |-> m[a + 1][b + 1]]]

\* square and ragged matrices, depot indices in range and the first one out of
\* range, no demand or a demand of 1 everywhere
InitUnchecked ==
    /\ n \in 1..MaxN
    /\ depot \in 0..n
    /\ d \in {Block(m, n) : m \in Matrices}
             \cup {Ragged(m, n, short) : m \in Matrices, short \in {0, n - 1}}
    /\ returns \in {<<>>, [c \in CustomerSet(n, depot) |-> 1]}
    /\ Q = MaxCap
    /\ routes = <<>>
    /\ route_loads = <<>>
    /\ route_of_customer = <<>>
    /\ savings_list = <<>>
    /\ k = 0
    /\ cm = FALSE
    /\ pc = "start"
    /\ result = 0
    /\ examined = <<>>
    /\ merges = 0
    /\ merged = NoMerge
    /\ returned = <<>>

\* compute_savings reads outside the matrix: solve() ends with IndexError
ComputeSavingsRaises ==
    /\ pc = "savings"
    /\ ~SavingsReadable
    /\ pc' = "IndexError"
    /\ UNCHANGED <<inputs, object, savings_list, k, cm, result, examined, merges, merged, returned>>

\* total_cost reads outside the matrix: solve() ends with IndexError
ReturnRaises ==
    /\ pc = "loop"
    /\ k > Len(savings_list)
    /\ \E r \in 1..Len(routes) : ~CostReadable(routes[r])
    /\ pc' = "IndexError"
    /\ UNCHANGED <<inputs, object, savings_list, k, cm, result, examined, merges, merged, returned>>

NextUnchecked ==
    \/ InitRoutes
    \/ ComputeSavings
    \/ ComputeSavingsRaises
    \/ CanMergeCall
    \/ MergeCall
    \/ SkipMerge
    \/ Return
    \/ ReturnRaises

SpecUnchecked == InitUnchecked /\ [][NextUnchecked]_vars

-----------------------------------------------------------------------------
(* solve() on the usage example cut down to three customers, and on its     *)
(* neighbours: the same matrix with any quantities and capacities up to its *)

\* vehicle_capacity of the usage example
ScenarioCapacity == 5

\* returns of the usage example, customers 1 to 3
ScenarioReturns == (1 :> 2) @@ (2 :> 3) @@ (3 :> 1)

InitScenario ==
    /\ n = 4
    /\ depot = 0
    /\ d = Block(Example, 4)
    /\ returns \in [1..3 -> 1..3]
    /\ Q \in 1..ScenarioCapacity
    /\ routes = <<>>
    /\ route_loads = <<>>
    /\ route_of_customer = <<>>
    /\ savings_list = <<>>
    /\ k = 0
    /\ cm = FALSE
    /\ pc = "start"
    /\ result = 0
    /\ examined = <<>>
    /\ merges = 0
    /\ merged = NoMerge
    /\ returned = <<>>

SpecScenario == InitScenario /\ [][Next]_vars

-----------------------------------------------------------------------------
(* solve() on distances whose sums round, next to distances whose sums do   *)
(* not: the three matrices above and Coarse, with no demand or a demand of  *)
(* 1 everywhere                                                             *)

InitRounding ==
    /\ n \in 1..MaxN
    /\ depot \in 0..(n - 1)
    /\ d \in {Block(m, n) : m \in Matrices \cup {Coarse}}
    /\ returns \in {<<>>, [c \in CustomerSet(n, depot) |-> 1]}
    /\ Q = MaxCap
    /\ routes = <<>>
    /\ route_loads = <<>>
    /\ route_of_customer = <<>>
    /\ savings_list = <<>>
    /\ k = 0
    /\ cm = FALSE
    /\ pc = "start"
    /\ result = 0
    /\ examined = <<>>
    /\ merges = 0
    /\ merged = NoMerge
    /\ returned = <<>>

SpecRounding == InitRounding /\ [][Next]_vars

-----------------------------------------------------------------------------
(* A caller that calls solve() again on the solver object it has: the       *)
(* attributes are what the call before left, the locals of solve() are new  *)

InitRepeat ==
    /\ n \in 1..MaxN
    /\ depot \in 0..(n - 1)
    /\ d \in {Block(m, n) : m \in Matrices}
    /\ returns \in {<<>>} \cup {[c \in CustomerSet(n, depot) |-> q] : q \in Quantities}
    /\ Q = MaxCap
    /\ routes = <<>>
    /\ route_loads = <<>>
    /\ route_of_customer = <<>>
    /\ savings_list = <<>>
    /\ k = 0
    /\ cm = FALSE
    /\ pc = "start"
    /\ result = 0
    /\ examined = <<>>
    /\ merges = 0
    /\ merged = NoMerge
    /\ returned = <<>>

\* result = solver.solve(), once more
SolveAgain ==
    /\ pc = "done"
    /\ Len(returned) < MaxCalls
    /\ pc' = "start"
    /\ savings_list' = <<>>
    /\ k' = 0
    /\ cm' = FALSE
    /\ examined' = <<>>
    /\ merges' = 0
    /\ merged' = NoMerge
    /\ UNCHANGED <<inputs, object, result, returned>>

NextRepeat ==
    \/ InitRoutes
    \/ ComputeSavings
    \/ CanMergeCall
    \/ MergeCall
    \/ SkipMerge
    \/ Return
    \/ SolveAgain

SpecRepeat == InitRepeat /\ [][NextRepeat]_vars

-----------------------------------------------------------------------------
(* A caller that uses the methods directly: init_routes(), then merge(i, j) *)
(* for customers of its choice, without asking can_merge first              *)

InitDirect ==
    /\ n \in 1..MaxN
    /\ depot \in 0..(n - 1)
    /\ d = Block(Example, n)
    /\ returns \in {[c \in CustomerSet(n, depot) |-> q] : q \in Quantities}
    /\ Q = MaxCap
    /\ routes = <<>>
    /\ route_loads = <<>>
    /\ route_of_customer = <<>>
    /\ savings_list = <<>>
    /\ k = 0
    /\ cm = FALSE
    /\ pc = "start"
    /\ result = 0
    /\ examined = <<>>
    /\ merges = 0
    /\ merged = NoMerge
    /\ returned = <<>>

\* solver.init_routes()
DirectInitRoutes ==
    /\ pc = "start"
    /\ routes' = init_routes.routes
    /\ route_loads' = init_routes.route_loads
    /\ route_of_customer' = init_routes.route_of_customer
    /\ pc' = "idle"
    /\ UNCHANGED <<inputs, savings_list, k, cm, result, examined, merges, merged, returned>>

\* self.routes[ri] and self.routes[rj] of merge(i, j) can be read
SlotsReadable(i, j) ==
    /\ route_of_customer[i] < Len(routes)
    /\ route_of_customer[j] < Len(routes)

\* solver.merge(i, j) returns
DirectMerge ==
    /\ pc = "idle"
    /\ \E i, j \in CustomerSet(n, depot) :
          /\ SlotsReadable(i, j)
          /\ LET after == merge(Self, i, j)
             IN  /\ routes' = after.routes
                 /\ route_loads' = after.route_loads
                 /\ route_of_customer' = after.route_of_customer
          /\ merged' = merge_locals(Self, i, j)
    /\ UNCHANGED <<inputs, savings_list, k, cm, pc, result, examined, merges, returned>>

\* solver.merge(i, j) raises IndexError: an earlier call has left a customer
\* pointing behind the end of self.routes
DirectMergeRaises ==
    /\ pc = "idle"
    /\ \E i, j \in CustomerSet(n, depot) : ~SlotsReadable(i, j)
    /\ pc' = "IndexError"
    /\ UNCHANGED <<inputs, object, savings_list, k, cm, result, examined, merges, merged, returned>>

NextDirect ==
    \/ DirectInitRoutes
    \/ DirectMerge
    \/ DirectMergeRaises

SpecDirect == InitDirect /\ [][NextDirect]_vars

-----------------------------------------------------------------------------
(* Vocabulary of the properties, read off the routes themselves *)

Customers == CustomerSet(n, depot)

\* init_routes has run
Built == pc # "start"
\* compute_savings has returned
Computed == pc \in {"loop", "test", "done"}

Slots == 1..Len(routes)
Nodes(route) == {route[p] : p \in 1..Len(route)}
Inner(route) == SubSeq(route, 2, Len(route) - 1)

\* the positions <<slot, place>> at which node c stands
Occurrences(c) ==
    {sp \in UNION {{<<r, p>> : p \in 1..Len(routes[r])} : r \in Slots} :
        routes[sp[1]][sp[2]] = c}

\* the slot (1-based) of the route in which customer c stands
SlotOf(c) == CHOOSE r \in Slots : \E p \in 1..Len(routes[r]) : routes[r][p] = c

\* sum of the demands of the customers of a route
RouteLoad(route) ==
    SumSeq([p \in 1..Len(Inner(route)) |-> returns_get(Inner(route)[p])])

\* c is the first or the last customer of its route
Endpoint(c) ==
    LET route == routes[SlotOf(c)]
    IN  route[2] = c \/ route[Len(route) - 1] = c

\* the entry the loop of solve() is at
Entry == savings_list[k]

-----------------------------------------------------------------------------
\* C1: once init_routes has run, and after every merge, every customer stands
\* at exactly one position of exactly one route, and the customers found in
\* the routes are exactly the customers of the input.
PartitionInvariant ==
    Built =>
        /\ \A c \in Customers : Cardinality(Occurrences(c)) = 1
        /\ UNION {Nodes(routes[r]) : r \in Slots} \ {depot} = Customers

\* a run that has merged twice and still holds several routes
PartitionWitness ==
    /\ pc = "loop"
    /\ merges >= 2
    /\ Len(routes) >= 2
    /\ PartitionInvariant

\* C2 (as claimed): every returned route carries at most the vehicle capacity.
CapacityInvariant ==
    pc = "done" => \A r \in Slots : RouteLoad(routes[r]) <= Q

\* C3: every route has at least three elements, starts and ends with the
\* depot, and holds the depot nowhere else.
DepotAnchoring ==
    \A r \in Slots :
        /\ Len(routes[r]) >= 3
        /\ routes[r][1] = depot
        /\ routes[r][Len(routes[r])] = depot
        /\ \A p \in 2..(Len(routes[r]) - 1) : routes[r][p] # depot

\* a route of three customers built by two merges
AnchoringWitness ==
    /\ merges >= 2
    /\ \E r \in Slots : Len(routes[r]) >= 5
    /\ DepotAnchoring

\* C4 (as claimed): the returned total cost is at most the total cost of the
\* one-route-per-customer set built by init_routes.
MonotonicCost ==
    pc = "done" => result <= total_cost(init_routes.routes)

-----------------------------------------------------------------------------
\* the pair (i, j) is appended before the pair (a, b) by the two nested loops
Earlier(i, j, a, b) == i < a \/ (i = a /\ j < b)

\* C5: the savings list holds exactly one entry for every pair of customers
\* i < j and nothing else (no self pair, no pair with the depot, C(N-1, 2)
\* entries), and the value of an entry is d[depot][i] + d[depot][j] - d[i][j].
SavingsComplete ==
    Computed =>
        /\ 2 * Len(savings_list) = (n - 1) * (n - 2)
        /\ \A i, j \in Customers :
              i < j => Cardinality({q \in 1..Len(savings_list) :
                          savings_list[q][2] = i /\ savings_list[q][3] = j}) = 1
        /\ \A q \in 1..Len(savings_list) :
              LET i == savings_list[q][2]
                  j == savings_list[q][3]
              IN  /\ i \in Customers
                  /\ j \in Customers
                  /\ i < j
                  /\ savings_list[q][1] = d[depot][i] + d[depot][j] - d[i][j]

\* the savings of four customers around a depot that is not node 0, over a
\* matrix on which d[i][j] and d[j][i] differ for some listed pair
SavingsWitness ==
    /\ pc = "loop"
    /\ depot # 0
    /\ Len(savings_list) = 6
    /\ \E q \in 1..6 : d[savings_list[q][2]][savings_list[q][3]]
                          # d[savings_list[q][3]][savings_list[q][2]]
    /\ SavingsComplete

\* C6: the savings list is in descending order of value, and entries of equal
\* value stand in the order in which the loops appended them.
SavingsSorted ==
    Computed =>
        \A p, q \in 1..Len(savings_list) :
            p < q =>
                /\ savings_list[p][1] >= savings_list[q][1]
                /\ savings_list[p][1] = savings_list[q][1] =>
                      Earlier(savings_list[p][2], savings_list[p][3],
                              savings_list[q][2], savings_list[q][3])

\* a list with two entries of equal value, in which the sort also had to move
\* an entry in front of one appended before it
SortedWitness ==
    /\ pc = "loop"
    /\ \E p, q \in 1..Len(savings_list) :
          p < q /\ savings_list[p][1] = savings_list[q][1]
    /\ \E p, q \in 1..Len(savings_list) :
          /\ p < q
          /\ Earlier(savings_list[q][2], savings_list[q][3],
                     savings_list[p][2], savings_list[p][3])
    /\ SavingsSorted

-----------------------------------------------------------------------------
\* the three conditions of a feasible merge, read off the routes
Feasible(i, j) ==
    LET si == SlotOf(i)
        sj == SlotOf(j)
    IN  /\ si # sj
        /\ routes[si][2] = i \/ routes[si][Len(routes[si]) - 1] = i
        /\ routes[sj][2] = j \/ routes[sj][Len(routes[sj]) - 1] = j
        /\ route_loads[si] + route_loads[sj] <= Q

\* C7: in every state after init_routes, for any two customers i and j,
\* can_merge(i, j) returns true exactly when i and j stand in different
\* routes, each is the first or the last customer of its route, and the two
\* loads together are at most the capacity.
CanMergeIff ==
    Built =>
        \A i, j \in Customers : can_merge(Self, i, j).ret <=> Feasible(i, j)

\* after a merge: one pair is accepted with loads that add up to exactly the
\* capacity, another pair is refused although it fits, because one of its
\* customers is inside its route
CanMergeWitness ==
    /\ merges >= 1
    /\ \E i, j \in Customers :
          /\ can_merge(Self, i, j).ret
          /\ route_loads[SlotOf(i)] + route_loads[SlotOf(j)] = Q
          /\ Q > 0
    /\ \E i, j \in Customers :
          /\ ~can_merge(Self, i, j).ret
          /\ SlotOf(i) # SlotOf(j)
          /\ ~Endpoint(i)
          /\ route_loads[SlotOf(i)] + route_loads[SlotOf(j)] <= Q
    /\ CanMergeIff

\* C8: a call of can_merge leaves routes, route_loads and route_of_customer
\* as they were, and asking again before any merge gives the answer it gave.
CanMergePure ==
    /\ [][pc = "loop" /\ pc' = "test" => object' = object]_vars
    /\ [](pc = "test" => cm = can_merge(Self, Entry[2], Entry[3]).ret)

\* can_merge has just been asked about two customers of one route, and about
\* two customers it may merge
CanMergePureWitness ==
    \/ /\ pc = "test"
       /\ merges >= 1
       /\ SlotOf(Entry[2]) = SlotOf(Entry[3])
       /\ ~cm
    \/ /\ pc = "test"
       /\ merges >= 1
       /\ cm
       /\ route_loads[SlotOf(Entry[2])] > 0
       /\ route_loads[SlotOf(Entry[3])] > 0

\* C9: routes and route_loads have the same length and every load is the sum
\* of the demands of the customers of its route; a merge leaves one route
\* fewer, and the load of the merged route is the sum of the two loads before.
LoadBookkeeping ==
    /\ [](/\ Len(routes) = Len(route_loads)
          /\ \A r \in Slots : route_loads[r] = RouteLoad(routes[r]))
    /\ [][pc = "test" /\ cm =>
            /\ Len(routes') = Len(routes) - 1
            /\ \E r \in 1..Len(routes') :
                  /\ Entry[2] \in Nodes(routes'[r])
                  /\ Entry[3] \in Nodes(routes'[r])
                  /\ route_loads'[r] = route_loads[SlotOf(Entry[2])]
                                       + route_loads[SlotOf(Entry[3])]]_vars

\* two merges have built a route that carries the demands of three customers
LoadWitness ==
    /\ pc = "loop"
    /\ merges >= 2
    /\ \E r \in Slots :
          /\ Len(routes[r]) = 5
          /\ route_loads[r] = 3
          /\ \A p \in 2..4 : returns_get(routes[r][p]) = 1
    /\ Len(routes) = Len(route_loads)

\* how many steps solve() has left at most
Rank ==
    IF pc = "start" THEN (n - 1) * (n - 2) + 3
    ELSE IF pc = "savings" THEN (n - 1) * (n - 2) + 2
    ELSE IF pc = "loop" THEN 2 * (Len(savings_list) + 1 - k) + 1
    ELSE IF pc = "test" THEN 2 * (Len(savings_list) + 1 - k)
    ELSE 0

\* C10: solve() goes through the savings list once, entry by entry in list
\* order; at each entry it calls merge exactly when the merge is feasible at
\* that moment and otherwise leaves the routes alone; it returns after the
\* last entry (the loop position stays within the list and every step brings
\* the return nearer), having merged at most N-1 times.
SinglePass ==
    /\ [](examined = SubSeq(savings_list, 1, Len(examined)))
    /\ [](pc = "loop" => Len(examined) = k - 1)
    /\ [](pc = "test" => Len(examined) = k)
    /\ [](pc = "done" => examined = savings_list /\ k = Len(savings_list) + 1)
    /\ [](merges <= n - 1)
    /\ [](pc = "loop" => k \in 1..(Len(savings_list) + 1))
    /\ [](pc = "test" => k \in 1..Len(savings_list))
    /\ [](Rank >= 0)
    /\ [][Rank' < Rank]_vars
    /\ [][pc = "test" =>
            /\ k' = k + 1
            /\ pc' = "loop"
            /\ Feasible(Entry[2], Entry[3]) => merges' = merges + 1
            /\ ~Feasible(Entry[2], Entry[3]) =>
                  merges' = merges /\ object' = object]_vars
    /\ [][merges' # merges => pc = "test" /\ Feasible(Entry[2], Entry[3])]_vars

\* a finished run over six savings entries, some merged and some skipped
SinglePassWitness ==
    /\ pc = "done"
    /\ Len(savings_list) = 6
    /\ examined = savings_list
    /\ merges >= 2
    /\ Len(routes) >= 2

-----------------------------------------------------------------------------
\* the matrix is square and the depot is one of its indices
WellFormed ==
    /\ \A a \in DOMAIN d : DOMAIN d[a] = 0..(n - 1)
    /\ depot \in 0..(n - 1)

\* C11 (as claimed): with a matrix that is not square or a depot index out of
\* range the solver stops with InvalidInput before any route is built.
InvalidInputRejected ==
    ~WellFormed => routes = <<>> /\ pc \in {"start", "InvalidInput"}

\* C12: a customer whose demand exceeds the capacity is never merged: from
\* init_routes on its route is [depot, c, depot] in every state, up to and
\* including the state in which solve() has returned.
HeavyStaysAlone ==
    \A c \in Customers :
        (Built /\ returns_get(c) > Q) =>
            /\ routes[SlotOf(c)] = <<depot, c, depot>>
            /\ pc \in {"savings", "loop", "test", "done"}

\* solve() has returned after merging around a customer that is too heavy
HeavyWitness ==
    /\ pc = "done"
    /\ merges >= 2
    /\ \E c \in Customers :
          /\ returns_get(c) > Q
          /\ routes[SlotOf(c)] = <<depot, c, depot>>

\* C13: on the scenario the savings are (32,2,3), (15,1,2), (15,1,3); the
\* first is merged, the two of value 15 are refused because the loads 4 + 2
\* exceed 5, and solve() returns two routes, one with customers 2 and 3 and
\* the other [0,1,0], of total cost 88.
ScenarioRun ==
    (returns = ScenarioReturns /\ Q = ScenarioCapacity) =>
        /\ Computed => savings_list = << <<32, 2, 3>>, <<15, 1, 2>>, <<15, 1, 3>> >>
        /\ (pc = "test" /\ k = 1) => cm
        /\ (pc = "test" /\ k > 1) =>
              /\ ~cm
              /\ SlotOf(Entry[2]) # SlotOf(Entry[3])
              /\ Endpoint(Entry[2]) /\ Endpoint(Entry[3])
              /\ route_loads[SlotOf(Entry[2])] = 2
              /\ route_loads[SlotOf(Entry[3])] = 4
        /\ pc = "done" =>
              /\ merges = 1
              /\ Len(routes) = 2
              /\ \E r \in Slots : routes[r] = <<0, 1, 0>>
              /\ \E r \in Slots : Nodes(routes[r]) = {0, 2, 3}
              /\ result = 88

\* solve() has returned on the scenario
ScenarioWitness ==
    /\ returns = ScenarioReturns
    /\ Q = ScenarioCapacity
    /\ d = Block(Example, 4)
    /\ pc = "done"
    /\ result = 88

-----------------------------------------------------------------------------
\* the sum of d[a][b] over the consecutive nodes a, b of every route
EdgeSum ==
    SumSeq([r \in Slots |->
        SumSeq([p \in 1..(Len(routes[r]) - 1) |-> d[routes[r][p]][routes[r][p + 1]]])])

\* C14: the total cost returned by solve() is the sum, over the returned
\* routes, of d[a][b] for every two consecutive nodes a, b of the route.
TotalCostIsEdgeSum == pc = "done" => result = EdgeSum

\* solve() has returned several routes, one of them built by merges, over a
\* matrix that is not symmetric
TotalCostWitness ==
    /\ pc = "done"
    /\ merges >= 2
    /\ Len(routes) >= 2
    /\ \E a, b \in DOMAIN d : d[a][b] # d[b][a]
    /\ result = EdgeSum
    /\ result > 0

\* C16: after init_routes and after every merge, route_of_customer maps every
\* customer to a slot that exists and whose route holds that customer.
IndexBookkeeping ==
    Built =>
        /\ DOMAIN route_of_customer = Customers
        /\ \A c \in Customers :
              /\ route_of_customer[c] \in 0..(Len(routes) - 1)
              /\ c \in Nodes(At(routes, route_of_customer[c]))

\* the latest merge kept slot ri although ri was the last slot, so that the
\* merged route was moved into slot rj; other routes remain
IndexWitness ==
    /\ pc = "loop"
    /\ merged.taken > 0
    /\ merged.ri = merged.last_idx
    /\ merged.rj < merged.last_idx
    /\ Len(routes) >= 2
    /\ merged.i \in Nodes(At(routes, merged.rj))
    /\ IndexBookkeeping

\* the latest merge removed the last slot
RemovedLastSlot ==
    pc = "loop" /\ merged.taken > 0 /\ merged.rj = merged.last_idx

\* the latest merge removed an inner slot and kept an inner slot
RemovedInnerSlot ==
    /\ pc = "loop"
    /\ merged.taken > 0
    /\ merged.rj < merged.last_idx
    /\ merged.ri < merged.last_idx

-----------------------------------------------------------------------------
\* c is the first customer of its route / the last customer of its route
IsFirst(c) == routes[SlotOf(c)][2] = c
IsLast(c) == routes[SlotOf(c)][Len(routes[SlotOf(c)]) - 1] = c

\* the customers of the route of c, in their order
CustomersOf(c) == Inner(routes[SlotOf(c)])

\* C17: when solve() merges (i, j): if i is the last customer of its route
\* and j the first of its route, the new route is depot, the customers of
\* route_i, the customers of route_j, depot; otherwise, if i is the first and
\* j the last, it is depot, the customers of route_j, the customers of
\* route_i, depot.
DirectSplice ==
    [][(pc = "test" /\ cm) =>
        LET i == Entry[2]
            j == Entry[3]
            new == routes'[CHOOSE r \in 1..Len(routes') : i \in Nodes(routes'[r])]
        IN  /\ (IsLast(i) /\ IsFirst(j)) =>
                  new = <<depot>> \o CustomersOf(i) \o CustomersOf(j) \o <<depot>>
            /\ (~(IsLast(i) /\ IsFirst(j)) /\ IsFirst(i) /\ IsLast(j)) =>
                  new = <<depot>> \o CustomersOf(j) \o CustomersOf(i) \o <<depot>>]_vars

\* the latest merge took the second branch with a route_i of two customers or
\* more, and the merged route is route_j's customers before route_i's
DirectSpliceWitness ==
    /\ pc = "loop"
    /\ merged.taken = 2
    /\ Len(merged.route_i) >= 4
    /\ routes[SlotOf(merged.i)] =
          <<depot>> \o Inner(merged.route_j) \o Inner(merged.route_i) \o <<depot>>

\* C18: when solve() merges (i, j) and neither direct case applies: if i and
\* j are both first in their routes, the new route is depot, the customers of
\* route_i reversed, the customers of route_j, depot; if both are last, it is
\* depot, the customers of route_i, the customers of route_j reversed, depot;
\* the depot stands only at the two ends.
ReversingSplice ==
    [][(/\ pc = "test"
        /\ cm
        /\ ~(IsLast(Entry[2]) /\ IsFirst(Entry[3]))
        /\ ~(IsFirst(Entry[2]) /\ IsLast(Entry[3]))) =>
        LET i == Entry[2]
            j == Entry[3]
            new == routes'[CHOOSE r \in 1..Len(routes') : i \in Nodes(routes'[r])]
        IN  /\ (IsFirst(i) /\ IsFirst(j)) =>
                  new = <<depot>> \o Reversed(CustomersOf(i)) \o CustomersOf(j) \o <<depot>>
            /\ (IsLast(i) /\ IsLast(j)) =>
                  new = <<depot>> \o CustomersOf(i) \o Reversed(CustomersOf(j)) \o <<depot>>
            /\ {p \in 1..Len(new) : new[p] = depot} = {1, Len(new)}]_vars

\* the latest merge joined two routes of two customers at their first
\* customers, and the merged route starts with route_i backwards
ReversingWitness ==
    /\ pc = "loop"
    /\ merged.taken = 3
    /\ Len(merged.route_i) = 4
    /\ Len(merged.route_j) = 4
    /\ routes[SlotOf(merged.i)] =
          <<depot, merged.route_i[3], merged.route_i[2],
            merged.route_j[2], merged.route_j[3], depot>>

\* the latest merge joined two routes at their last customers
JoinedAtEnds == pc = "loop" /\ merged.taken = 4

-----------------------------------------------------------------------------
\* C20: init_routes builds one route [depot, c, depot] per customer, in
\* increasing order of c, with the demand of c as load, or 0 when c has no
\* demand, and maps c to the slot of its route; a demand keyed by the depot
\* adds nothing.
InitRoutesShape ==
    pc = "savings" =>
        /\ Len(routes) = Cardinality(Customers)
        /\ Len(route_loads) = Cardinality(Customers)
        /\ DOMAIN route_of_customer = Customers
        /\ \A c \in Customers :
              LET idx == Cardinality({x \in Customers : x < c})
              IN  /\ At(routes, idx) = <<depot, c, depot>>
                  /\ At(route_loads, idx) = (IF c \in DOMAIN returns THEN returns[c] ELSE 0)
                  /\ route_of_customer[c] = idx

\* init_routes has run with a depot in the middle of the node numbers that
\* has a demand of its own
InitRoutesWitness ==
    /\ pc = "savings"
    /\ n >= 4
    /\ depot \in 1..(n - 2)
    /\ depot \in DOMAIN returns
    /\ Len(routes) = n - 1
    /\ route_loads = [idx \in 1..(n - 1) |-> returns[depot]]

-----------------------------------------------------------------------------
\* customers a and b stand in one route of the route list rs
Together(rs, a, b) ==
    \E r \in 1..Len(rs) : a \in Nodes(rs[r]) /\ b \in Nodes(rs[r])

\* C21: routes are never split: two customers that stand in the same route
\* in some state of solve() stand in the same route in the next state, and so
\* in every later state of the run.
NeverSplit ==
    [][\A a, b \in Customers : Together(routes, a, b) => Together(routes', a, b)]_vars

\* solve() has returned a route of three customers or more, whose customers
\* were brought together by different merges, next to other routes
NeverSplitWitness ==
    /\ pc = "done"
    /\ merges >= 2
    /\ Len(routes) >= 2
    /\ \E r \in Slots : Len(routes[r]) >= 5
    /\ Together(routes, examined[1][2], examined[1][3])

-----------------------------------------------------------------------------
\* the solver object after the step
SelfNext == [routes |-> routes', route_loads |-> route_loads',
             route_of_customer |-> route_of_customer']

\* no demand is negative
NonNegative == \A c \in DOMAIN returns : returns[c] >= 0

\* C22: with non-negative demands, a pair of customers (i, j) for which
\* can_merge(i, j) is false in a state of solve() has can_merge(i, j) false in
\* the next state, and so in every later state of the run; and when solve()
\* has returned, can_merge is false for every pair of customers.
OpportunitiesShrink ==
    /\ [][(Built /\ NonNegative) =>
            \A i, j \in Customers :
                ~can_merge(Self, i, j).ret => ~can_merge(SelfNext, i, j).ret]_vars
    /\ []((pc = "done" /\ NonNegative) =>
            \A i, j \in Customers : ~can_merge(Self, i, j).ret)

\* solve() has returned several routes after two merges or more: two of the
\* routes are too heavy to be joined at their endpoints, and a route holds a
\* customer that is no endpoint any more
FixpointWitness ==
    /\ pc = "done"
    /\ merges >= 2
    /\ Len(routes) >= 2
    /\ NonNegative
    /\ \E i, j \in Customers :
          /\ SlotOf(i) # SlotOf(j)
          /\ Endpoint(i)
          /\ Endpoint(j)
          /\ route_loads[SlotOf(i)] + route_loads[SlotOf(j)] > Q
    /\ \E i \in Customers : ~Endpoint(i)
    /\ \A i, j \in Customers : ~can_merge(Self, i, j).ret

-----------------------------------------------------------------------------
\* C23: in every state in which can_merge(i, j) returns true, the if / elif
\* chain of merge(i, j) takes one of its four splice branches; no merge() call
\* made by solve() has ended in the final else.
SpliceCoverage ==
    /\ Built =>
          \A i, j \in Customers :
              can_merge(Self, i, j).ret => merge_locals(Self, i, j).taken \in 1..4
    /\ merged.taken # 0

\* the latest merge went through the whole chain down to its fourth branch:
\* i and j were the last customers of two routes of two customers or more
SpliceCoverageWitness ==
    /\ pc = "loop"
    /\ merges >= 3
    /\ merged.taken = 4
    /\ Len(merged.route_i) >= 4
    /\ Len(merged.route_j) >= 4
    /\ Neg2(merged.route_i) = merged.i
    /\ Neg2(merged.route_j) = merged.j

-----------------------------------------------------------------------------
\* a and b stand at consecutive positions of one route of the route list rs
Adjacent(rs, a, b) ==
    \E r \in 1..Len(rs) :
        \E p \in 1..(Len(rs[r]) - 1) : {rs[r][p], rs[r][p + 1]} = {a, b}

\* C24: after every merge(i, j) that solve() performs, can_merge(i, j) having
\* returned true, i and j stand at consecutive positions of the merged route,
\* whichever splice branch was taken and whether or not a route held a single
\* customer.
MergedAdjacent ==
    [][(pc = "test" /\ cm) => Adjacent(routes', Entry[2], Entry[3])]_vars

\* the latest merge reversed route_i to bring i next to j: both were first in
\* routes of two customers or more, and now they are neighbours
AdjacentWitness ==
    /\ pc = "loop"
    /\ merged.taken = 3
    /\ Len(merged.route_i) >= 4
    /\ Len(merged.route_j) >= 4
    /\ Adjacent(routes, merged.i, merged.j)
    /\ ~Endpoint(merged.i)
    /\ ~Endpoint(merged.j)

-----------------------------------------------------------------------------
\* d[a][b] = d[b][a] for all nodes
Symmetric == \A a, b \in DOMAIN d : d[a][b] = d[b][a]

\* the exact sum of d[a][b] over the consecutive nodes a, b of the routes rs
EdgeSumOf(rs) ==
    SumSeq([r \in 1..Len(rs) |->
        SumSeq([p \in 1..(Len(rs[r]) - 1) |-> d[rs[r][p]][rs[r][p + 1]]])])

\* x is so small that no sum of non-negative floats that ends in x has rounded
Unrounded(x) == x < FloatLimit

-----------------------------------------------------------------------------
\* C26: a merge(i, j) of solve() leaves one route fewer and changes only the
\* routes of i and j: every other route keeps its node sequence, its load
\* and its slot, except that the route of the last slot is found in the slot
\* that the route of j has left; route_of_customer follows.
MergeFrame ==
    [][(pc = "test" /\ cm) =>
        LET ri == SlotOf(Entry[2]) - 1
            rj == SlotOf(Entry[3]) - 1
            last_idx == Len(routes) - 1
        IN  /\ Len(routes') = Len(routes) - 1
            /\ Len(route_loads') = Len(route_loads) - 1
            /\ \A r \in 0..last_idx :
                  r \notin {ri, rj} =>
                      LET to == IF r = last_idx THEN rj ELSE r
                      IN  /\ At(routes', to) = At(routes, r)
                          /\ At(route_loads', to) = At(route_loads, r)
                          /\ \A c \in Nodes(At(routes, r)) \ {depot} :
                                route_of_customer'[c] = to]_vars

\* the first merge of a run over four customers joined two of the first
\* three routes: the third is in its slot, and the route of the last
\* customer is in the slot that the route of j has left
MergeFrameWitness ==
    /\ pc = "loop"
    /\ merges = 1
    /\ merged.taken > 0
    /\ merged.last_idx = 3
    /\ merged.ri < 3
    /\ merged.rj < 3
    /\ Len(routes) = 3
    /\ At(routes, merged.rj) = <<depot, customers[4], depot>>
    /\ route_of_customer[customers[4]] = merged.rj
    /\ \E r \in 0..2 :
          /\ r \notin {merged.ri, merged.rj}
          /\ At(routes, r) = <<depot, customers[r + 1], depot>>
          /\ route_of_customer[customers[r + 1]] = r

-----------------------------------------------------------------------------
\* C27: the solve() calls made on one solver object all return the same
\* routes and the same total cost, whatever the call before has left in
\* routes, route_loads and route_of_customer.
Repeatable ==
    \A a, b \in 1..Len(returned) : returned[a] = returned[b]

\* a second solve() has returned, on an object that the first call had left
\* with merged routes and fewer slots than init_routes builds
RepeatWitness ==
    /\ pc = "done"
    /\ Len(returned) = 2
    /\ merges >= 2
    /\ Len(returned[1].routes) >= 2
    /\ Len(returned[1].routes) < Len(init_routes.routes)
    /\ returned[2].routes = returned[1].routes
    /\ returned[2].total_cost = returned[1].total_cost

-----------------------------------------------------------------------------
\* C19 (as claimed): a call merge(i, j) made while can_merge(i, j) is false
\* stops with an assertion failure and leaves routes, route_loads and
\* route_of_customer as they were.
MergeAsserts ==
    [][(/\ pc = "idle"
        /\ pc' = "idle"
        /\ ~can_merge(Self, merged'.i, merged'.j).ret) =>
            (pc' = "AssertionError" /\ object' = object)]_vars

====
